---- MODULE Spec2Model ----
(***************************************************************************)
(* Work-order store (src/data/workOrderStore.ts), the RPC service          *)
(* (src/services/workOrderRPC.ts), the older service layer                 *)
(* (src/services/workOrderService.ts) and the HTTP handlers of             *)
(* /api/work-orders and /api/work-orders/[id] over one JSON backing file.  *)
(*                                                                         *)
(* A call is a sequence of steps separated by the awaits of the code: the  *)
(* completion of readFile, the open (truncate) of writeFile and the data   *)
(* write of writeFile.  Spec runs one call at a time, SpecConc interleaves  *)
(* the steps of two calls.                                                 *)
(*                                                                         *)
(* Encoding of JavaScript values                                           *)
(*   free text   [lead, core, trail]: numbers of leading whitespace,       *)
(*               trimmed and trailing whitespace characters                *)
(*   enum text   [txt |-> "Low"]                                           *)
(*   undefined   [undefined |-> TRUE]                                      *)
(*   object      a function from its own keys to values                    *)
(*   id          an integer: n >= 1 stands for a string of UUID form,      *)
(*               0 for a non-empty string that is no UUID                  *)
(*   timestamp   milliseconds since the epoch (toISOString is monotone)    *)
(***************************************************************************)
EXTENDS Integers, Sequences, FiniteSets, TLC

VARIABLES
    file,      \* content of work-orders.json
    now,       \* wall clock, in milliseconds
    used,      \* ids that uuidv4 issued or that the file held at the start
    ncalls,    \* calls started so far
    pc,        \* per call: the await it is suspended at
    call,      \* per call: operation, service layer and arguments
    arg,       \* per call: the data handed to the store function
    seen,      \* per call: the collection the store function loaded
    buf,       \* per call: the collection handed to writeWorkOrders
    ret,       \* per call: the value the store function returns after its write
    result,    \* per call: the value or error the service call ended with
    nreads,    \* per call: readFile calls issued
    nwrites,   \* per call: writeFile calls issued
    t0,        \* per create, one at a time: clock value at the start of the call
    file0,     \* per call, one at a time: content of the file at its start
    removed,   \* one at a time: the id the last call to return removed, else NotUuid
    gone,      \* interleaved: the ids whose remove has returned true
    form       \* state of the mounted WorkOrderForm component, if one is mounted

vars ==
    <<file, now, used, ncalls, pc, call, arg, seen, buf, ret, result, nreads, nwrites, t0, file0,
      removed, gone, form>>

(* ------------------------------ bounds ------------------------------- *)
MaxCalls == 2
MaxClock == 1

Procs == {1, 2}
Uuids == {1, 2, 3, 4}
NotUuid == 0

(* --------------------------- value encoding --------------------------- *)
Str(l, c, t) == [lead |-> l, core |-> c, trail |-> t]
Txt(s) == [txt |-> s]
Undefined == [undefined |-> TRUE]
IsUndefined(v) == "undefined" \in DOMAIN v
StrLen(s) == s.lead + s.core + s.trail
Trim(s) == Str(0, s.core, 0)
IsTrimmed(s) == s.lead = 0 /\ s.trail = 0

\* {...a, ...b}
Spread(a, b) == [k \in DOMAIN a \cup DOMAIN b |-> IF k \in DOMAIN b THEN b[k] ELSE a[k]]
\* const { updatedAt, ...rest } = o
Omit(o, key) == [k \in DOMAIN o \ {key} |-> o[k]]
Get(o, k) == IF k \in DOMAIN o THEN o[k] ELSE Undefined

(* --------------------------- program constants ------------------------ *)
TitleMin == 2
TitleMax == 80
DescMin == 10
DescMax == 500

Priorities == {Txt("Low"), Txt("Medium"), Txt("High")}
Statuses == {Txt("Open"), Txt("In Progress"), Txt("Done")}

(* ------------------- workOrderRPC.ts: the Zod schemas ------------------ *)
\* z.string().uuid(...).min(1, ...)
workOrderIdSchema(id) == id >= 1

\* z.string().min(2).max(80).trim(): the checks run in the order written, so
\* the two length checks see the untrimmed text and trim() rewrites it after.
titleSchemaOk(v) == ~IsUndefined(v) /\ StrLen(v) >= TitleMin /\ StrLen(v) <= TitleMax
descriptionSchemaOk(v) == ~IsUndefined(v) /\ StrLen(v) >= DescMin /\ StrLen(v) <= DescMax
prioritySchemaOk(v) == v \in Priorities
statusSchemaOk(v) == v \in Statuses

FieldOk(f, v) ==
    CASE f = "title" -> titleSchemaOk(v)
      [] f = "description" -> descriptionSchemaOk(v)
      [] f = "priority" -> prioritySchemaOk(v)
      [] f = "status" -> statusSchemaOk(v)

InputFields == {"title", "description", "priority", "status"}

\* the message of the issue that the schema of field f raises for v (the
\* schemas of the service, of the two routes and of the form give their
\* length checks the same messages)
IssueMessage(f, v) ==
    IF f \in {"title", "description"}
    THEN IF IsUndefined(v) THEN Txt("Invalid input: expected string, received undefined")
         ELSE IF f = "title"
         THEN IF StrLen(v) < TitleMin THEN Txt("Title must be at least 2 characters")
              ELSE Txt("Title must not exceed 80 characters")
         ELSE IF StrLen(v) < DescMin THEN Txt("Description must be at least 10 characters")
              ELSE Txt("Description must not exceed 500 characters")
    ELSE Txt("Invalid option")

\* value a field schema passes on: the text fields are trimmed
FieldOut(f, v) == IF f \in {"title", "description"} THEN Trim(v) ELSE v

\* createWorkOrderSchema.parse(data): the fields that raise an issue
createWorkOrderSchemaIssues(data) == {f \in InputFields : ~FieldOk(f, Get(data, f))}
\* createWorkOrderSchema.parse(data): the parsed object (unknown keys are stripped)
createWorkOrderSchema(data) == [f \in InputFields |-> FieldOut(f, data[f])]

\* updateWorkOrderSchema.parse(data): every field optional, updatedAt any
\* string, unknown keys rejected (.strict())
updateWorkOrderSchemaIssues(data) ==
    {f \in InputFields \cap DOMAIN data : ~IsUndefined(data[f]) /\ ~FieldOk(f, data[f])}
        \cup (DOMAIN data \ (InputFields \cup {"updatedAt"}))
\* a key of the input stays a key of the parsed object, also when its value
\* is undefined
updateWorkOrderSchema(data) ==
    [k \in DOMAIN data |->
        IF k \in InputFields /\ ~IsUndefined(data[k]) THEN FieldOut(k, data[k]) ELSE data[k]]

(* ------------- api/work-orders/[id]/route.ts: the Zod schemas ---------- *)
\* faulty variant of routeWorkOrderIdSchema: every id of the path is let through
routeWorkOrderIdSchemaAny(id) == TRUE

\* workOrderIdSchema of the route: z.string().uuid(...)
routeWorkOrderIdSchema(id) == id >= 1

\* updateWorkOrderBodySchema.parse(body): every field optional, unknown keys
\* (updatedAt among them) rejected
updateWorkOrderBodySchemaIssues(body) ==
    {f \in InputFields \cap DOMAIN body : ~IsUndefined(body[f]) /\ ~FieldOk(f, body[f])}
        \cup (DOMAIN body \ InputFields)
updateWorkOrderBodySchema(body) ==
    [k \in DOMAIN body |->
        IF k \in InputFields /\ ~IsUndefined(body[k]) THEN FieldOut(k, body[k]) ELSE body[k]]

(* --------------- api/work-orders/route.ts: the Zod schema -------------- *)
\* createWorkOrderBodySchema.parse(body): the fields that raise an issue, and
\* the parsed object (unknown keys are stripped)
createWorkOrderBodySchemaIssues(body) == {f \in InputFields : ~FieldOk(f, Get(body, f))}
createWorkOrderBodySchema(body) == [f \in InputFields |-> FieldOut(f, body[f])]

(* ---------------- workOrderService.ts: hand-written checks ------------- *)
\* if (!id || typeof id !== 'string' || id.trim().length === 0)
SvcIdOk(id) == id >= 0

\* !v || typeof v !== 'string' || v.trim().length === 0, then the length
\* range on the untrimmed text
SvcTextOk(v, min, max) ==
    ~IsUndefined(v) /\ v.core > 0 /\ StrLen(v) >= min /\ StrLen(v) <= max

\* createWorkOrder: the checks run in order and the first failure is thrown
createWorkOrderError(data) ==
    IF ~SvcTextOk(Get(data, "title"), TitleMin, TitleMax) THEN {"title"}
    ELSE IF ~SvcTextOk(Get(data, "description"), DescMin, DescMax) THEN {"description"}
    ELSE IF Get(data, "priority") \notin Priorities THEN {"priority"}
    ELSE IF Get(data, "status") \notin Statuses THEN {"status"}
    ELSE {}

\* updateWorkOrder: only fields that are not undefined are checked
updateWorkOrderError(updates) ==
    LET t == Get(updates, "title")
        d == Get(updates, "description")
        p == Get(updates, "priority")
        s == Get(updates, "status")
    IN  IF ~IsUndefined(t) /\ ~SvcTextOk(t, TitleMin, TitleMax) THEN {"title"}
        ELSE IF ~IsUndefined(d) /\ ~SvcTextOk(d, DescMin, DescMax) THEN {"description"}
        ELSE IF ~IsUndefined(p) /\ p \notin Priorities THEN {"priority"}
        ELSE IF ~IsUndefined(s) /\ s \notin Statuses THEN {"status"}
        ELSE {}

(* --------------------------- workOrderStore.ts ------------------------- *)
Missing == [kind |-> "missing"]      \* no file: readFile fails with ENOENT
Blank == [kind |-> "blank"]          \* zero bytes: JSON.parse throws SyntaxError
Garbage == [kind |-> "garbage"]      \* text that is no JSON: SyntaxError
NonArray == [kind |-> "nonarray"]    \* JSON that is no array: {}, 1, "x", null
\* a file the process may not read: readFile fails with EACCES
Unreadable == [kind |-> "unreadable"]
\* no data directory: readFile fails with ENOENT and so does writeFile
NoDirectory == [kind |-> "nodir"]
\* a file holding the array orders that the process may read and not write:
\* writeFile fails with EACCES
ReadOnlyFile(orders) == [kind |-> "readonly", orders |-> orders]
\* writeFile(DATA_FILE_PATH, ...) rejects
WriteFails(f) == f.kind \in {"readonly", "nodir"}

\* JSON.stringify drops the keys whose value is undefined; JSON.parse gives
\* back the rest as written
ToJson(o) ==
    [k \in {k \in DOMAIN o : k \in {"id", "updatedAt"} \/ ~IsUndefined(o[k])} |-> o[k]]
\* the file as writeFile(DATA_FILE_PATH, JSON.stringify(orders, null, 2)) leaves it
ArrayFile(orders) ==
    LET J[i \in 0..Len(orders)] == IF i = 0 THEN <<>> ELSE Append(J[i - 1], ToJson(orders[i]))
    IN  [kind |-> "array", orders |-> J[Len(orders)]]

\* readWorkOrders, up to the catch: what readFile and JSON.parse end with
ReadOutcome(f) ==
    CASE f.kind \in {"missing", "nodir"} -> "ENOENT"
      [] f.kind \in {"blank", "garbage"} -> "SyntaxError"
      [] f.kind = "nonarray" -> "Error"
      [] f.kind = "unreadable" -> "EACCES"
      [] f.kind \in {"array", "readonly"} -> "ok"

\* faulty variant of Heals: only a missing file is reinitialised
HealsOnlyMissing(outcome) == outcome = "ENOENT"

\* the catch of readWorkOrders: errors answered by writing [] and returning []
Heals(outcome) == outcome \in {"ENOENT", "SyntaxError"}

\* new Date().toISOString()
Timestamp(clock) == clock

\* faulty variant of UuidV4: the generator repeats the id it issued last
UuidV4Repeat(seenIds) ==
    IF seenIds = {} THEN {1} ELSE {id \in seenIds : \A other \in seenIds : id >= other}

\* uuidv4(): a random version-4 UUID, taken as never equal to an id seen
\* before.  Ids are opaque, so which unseen value is drawn makes no
\* difference, and the least one stands for all of them.
UuidV4(seenIds) == {id \in Uuids \ seenIds : \A other \in Uuids \ seenIds : id <= other}

\* faulty variant of FindIndex: a miss is answered with the first index
FindIndexOrFirst(orders, id) ==
    IF \E i \in 1..Len(orders) : orders[i].id = id
    THEN CHOOSE i \in 1..Len(orders) :
            orders[i].id = id /\ \A j \in 1..(i - 1) : orders[j].id # id
    ELSE IF Len(orders) > 0 THEN 1 ELSE 0

\* faulty variant of FindIndex: the last record is never found
FindIndexSkipsLast(orders, id) ==
    IF \E i \in 1..(Len(orders) - 1) : orders[i].id = id
    THEN CHOOSE i \in 1..(Len(orders) - 1) :
            orders[i].id = id /\ \A j \in 1..(i - 1) : orders[j].id # id
    ELSE 0

\* orders.findIndex((order) => order.id === id), 0 for -1
FindIndex(orders, id) ==
    IF \E i \in 1..Len(orders) : orders[i].id = id
    THEN CHOOSE i \in 1..Len(orders) :
            orders[i].id = id /\ \A j \in 1..(i - 1) : orders[j].id # id
    ELSE 0

\* orders.find((order) => order.id === id) || null
Null == [null |-> TRUE]
Find(orders, id) == IF FindIndex(orders, id) = 0 THEN Null ELSE orders[FindIndex(orders, id)]

\* faulty variant of NewOrder: the payload is spread last, over id and updatedAt
NewOrderPayloadLast(order, id, clock) ==
    Spread([id |-> id, updatedAt |-> Timestamp(clock)], order)

\* create: { ...order, id: uuidv4(), updatedAt: new Date().toISOString() }
NewOrder(order, id, clock) == Spread(order, [id |-> id, updatedAt |-> Timestamp(clock)])

\* faulty variant of UpdatedOrder: the id is not forced after the spread
UpdatedOrderIdFromPatch(old, updates, id, clock) ==
    Spread(Spread(old, updates), [updatedAt |-> Timestamp(clock)])

\* faulty variant of UpdatedOrder: a timestamp in the updates wins over the new one
UpdatedOrderStampFromPatch(old, updates, id, clock) ==
    Spread(Spread(old, [updatedAt |-> Timestamp(clock)]), Omit(updates, "id"))

\* update: { ...orders[index], ...updates, id, updatedAt: new Date().toISOString() }
UpdatedOrder(old, updates, id, clock) ==
    Spread(Spread(old, updates), [id |-> id, updatedAt |-> Timestamp(clock)])

\* faulty variant of ReplaceAt: the record is stored at the head of the array
ReplaceAtFirst(orders, index, order) == [orders EXCEPT ![1] = order]

\* faulty variant of ReplaceAt: the record is taken out and put back last
ReplaceAtMovesLast(orders, index, order) ==
    Append(SubSeq(orders, 1, index - 1) \o SubSeq(orders, index + 1, Len(orders)), order)

\* orders[index] = updatedOrder
ReplaceAt(orders, index, order) == [orders EXCEPT ![index] = order]

\* faulty variant of FilterOut: the comparison is inverted, the match is kept
FilterOutInverted(orders, id) ==
    LET F[i \in 0..Len(orders)] ==
            IF i = 0 THEN <<>>
            ELSE IF orders[i].id = id THEN Append(F[i - 1], orders[i]) ELSE F[i - 1]
    IN  F[Len(orders)]

\* faulty variant of FilterOut: when the id is found, the head of the array
\* is dropped instead of the matching record
FilterOutHead(orders, id) ==
    IF \E i \in 1..Len(orders) : orders[i].id = id THEN Tail(orders) ELSE orders

\* orders.filter((order) => order.id !== id)
FilterOut(orders, id) ==
    LET F[i \in 0..Len(orders)] ==
            IF i = 0 THEN <<>>
            ELSE IF orders[i].id # id THEN Append(F[i - 1], orders[i]) ELSE F[i - 1]
    IN  F[Len(orders)]


(* ------------------------------- inputs -------------------------------- *)
Low == Txt("Low")
High == Txt("High")
Open == Txt("Open")
Done == Txt("Done")
EmptyObject == [k \in {} |-> Undefined]

\* every field at its lower bound, and every field at its upper bound
ValidInput == [title |-> Str(0, 2, 0), description |-> Str(0, 10, 0), priority |-> Low, status |-> Open]
MaxInput == [title |-> Str(0, 80, 0), description |-> Str(0, 500, 0), priority |-> High, status |-> Done]

\* "a ", " ab", and the texts one character outside the range
TitleInputs == {Str(0, 1, 1), Str(1, 2, 0), Str(0, 1, 0), Str(0, 81, 0)}
DescInputs == {Str(0, 9, 0), Str(0, 501, 0)}

CreateInputs ==
    {ValidInput, MaxInput}
        \cup {Spread(ValidInput, [title |-> t]) : t \in TitleInputs}
        \cup {Spread(ValidInput, [description |-> d]) : d \in DescInputs}
        \cup {Spread(ValidInput, [priority |-> Txt("Urgent")]),
              Spread(ValidInput, [status |-> Txt("Closed")]),
              Spread(ValidInput, [extra |-> Str(0, 1, 0)]),
              Spread(ValidInput, [id |-> 1, updatedAt |-> 0]),
              Spread(ValidInput, [title |-> Str(0, 1, 0), priority |-> Txt("Urgent")])}

Patches ==
    {[status |-> Done],
     [title |-> Str(0, 80, 0)],
     [title |-> Str(0, 1, 1)],
     [title |-> Str(0, 1, 0)],
     [description |-> Str(0, 500, 0), priority |-> High],
     [status |-> Done, updatedAt |-> 0],
     [status |-> Done, id |-> 2, updatedAt |-> 0],
     [title |-> Undefined],
     EmptyObject}

\* inputs sent to one of the two services only: what the strict schema of
\* the RPC service rejects or strips goes to the older service, the longest
\* texts go to the RPC service
SvcOnly ==
    {Spread(ValidInput, [id |-> 1, updatedAt |-> 0]),
     Spread(ValidInput, [title |-> Str(1, 2, 0)]),
     [status |-> Done, id |-> 2, updatedAt |-> 0]}
RpcOnly == {[title |-> Str(0, 80, 0)], [description |-> Str(0, 500, 0), priority |-> High]}

\* the patches sent for the second record and for an id that is no UUID
OtherPatches == {[status |-> Done], [title |-> Str(0, 1, 0)], EmptyObject}

CallIds == {1, 2, NotUuid}
Apis == {"rpc", "svc"}

\* a request body that is no JSON: request.json() rejects
Malformed == [malformed |-> TRUE]
\* bodies of PUT /api/work-orders/[id]
Bodies ==
    {[status |-> Done],
     [title |-> Str(0, 1, 1)],
     [title |-> Str(0, 81, 0)],
     [status |-> Done, updatedAt |-> 0],
     EmptyObject,
     Malformed}

\* bodies of POST /api/work-orders
PostBodies ==
    {ValidInput,
     Spread(ValidInput, [title |-> Str(0, 1, 1)]),
     Spread(ValidInput, [description |-> Str(0, 501, 0)]),
     Spread(ValidInput, [status |-> Txt("Closed")]),
     Spread(ValidInput, [extra |-> Str(0, 1, 0)]),
     EmptyObject,
     Malformed}

\* requests to /api/work-orders/[id]: GET, DELETE and PUT, and to
\* /api/work-orders: GET and POST
HttpCalls ==
    [op : {"get", "remove"}, api : {"http"}, id : CallIds, data : {EmptyObject}]
        \cup [op : {"update"}, api : {"http"}, id : {1}, data : Bodies]
        \cup [op : {"update"}, api : {"http"}, id : {2, NotUuid}, data : {[status |-> Done], Malformed}]
        \cup [op : {"list"}, api : {"http"}, id : {NotUuid}, data : {EmptyObject}]
        \cup [op : {"create"}, api : {"http"}, id : {NotUuid}, data : PostBodies]

Calls ==
    [op : {"list"}, api : Apis, id : {NotUuid}, data : {EmptyObject}]
        \cup [op : {"get", "remove"}, api : Apis, id : CallIds, data : {EmptyObject}]
        \cup [op : {"create"}, api : {"rpc"}, id : {NotUuid}, data : CreateInputs \ SvcOnly]
        \cup [op : {"create"}, api : {"svc"}, id : {NotUuid}, data : CreateInputs \ {MaxInput}]
        \cup [op : {"update"}, api : {"rpc"}, id : {1}, data : Patches \ SvcOnly]
        \cup [op : {"update"}, api : {"svc"}, id : {1}, data : Patches \ RpcOnly]
        \cup [op : {"update"}, api : Apis, id : {2, NotUuid}, data : OtherPatches]
        \cup HttpCalls

\* the calls that are interleaved: well-formed requests, and an update whose
\* payload names another record's id
ConcCalls ==
    [op : {"list"}, api : {"rpc"}, id : {NotUuid}, data : {EmptyObject}]
        \cup [op : {"get", "remove"}, api : {"rpc"}, id : {1, 2}, data : {EmptyObject}]
        \cup [op : {"create"}, api : {"rpc"}, id : {NotUuid}, data : {ValidInput}]
        \cup [op : {"update"}, api : {"rpc"}, id : {1, 2}, data : {[status |-> Done]}]
        \cup [op : {"update"}, api : {"svc"}, id : {1, 2},
               data : {[status |-> Done, id |-> 2, updatedAt |-> 0]}]

NoCall == [op |-> "none"]

(* ---------------------------- initial states --------------------------- *)
Sample1 ==
    [id |-> 1, title |-> Str(0, 2, 0), description |-> Str(0, 10, 0),
     priority |-> Low, status |-> Open, updatedAt |-> 0]
Sample2 ==
    [id |-> 2, title |-> Str(0, 80, 0), description |-> Str(0, 500, 0),
     priority |-> High, status |-> Done, updatedAt |-> 0]

InitFiles ==
    {Missing, Blank, Garbage, NonArray, Unreadable, NoDirectory, ReadOnlyFile(<<Sample1>>)}
        \cup {ArrayFile(c) : c \in {<<>>, <<Sample1>>, <<Sample1, Sample2>>}}

Ids(orders) == {orders[i].id : i \in 1..Len(orders)}
FileOrders(f) == IF f.kind \in {"array", "readonly"} THEN f.orders ELSE <<>>

NoResult == [kind |-> "none"]

\* no page with a WorkOrderForm is open
Unmounted == [mode |-> "none"]

\* no call in flight and none made
InitCalls ==
    /\ now = 0
    /\ ncalls = 0
    /\ pc = [p \in Procs |-> "idle"]
    /\ call = [p \in Procs |-> NoCall]
    /\ arg = [p \in Procs |-> EmptyObject]
    /\ seen = [p \in Procs |-> <<>>]
    /\ buf = [p \in Procs |-> <<>>]
    /\ ret = [p \in Procs |-> NoResult]
    /\ result = [p \in Procs |-> NoResult]
    /\ nreads = [p \in Procs |-> 0]
    /\ nwrites = [p \in Procs |-> 0]
    /\ t0 = [p \in Procs |-> 0]
    /\ file0 = [p \in Procs |-> Missing]
    /\ removed = NotUuid
    /\ gone = {}

Init ==
    /\ file \in InitFiles
    /\ used = Ids(FileOrders(file))
    /\ InitCalls
    /\ form = Unmounted

(* ------------------------------ results -------------------------------- *)
OrderResult(o) == [kind |-> "order", order |-> o]
ListResult(orders) == [kind |-> "list", orders |-> orders]
NullResult == [kind |-> "null"]
BoolResult(b) == [kind |-> "bool", bool |-> b]
\* new Error(`Invalid work order ID: ...`)
InvalidId == [kind |-> "error", type |-> "InvalidIdentifier"]
\* new Error(`Validation failed: ...`), with the fields its message names
ValidationFailed(fields) == [kind |-> "error", type |-> "ValidationFailed", fields |-> fields]
\* an error of readFile, JSON.parse or writeFile that reaches the caller:
\* wrapped is TRUE when a try/catch of the service rethrew it as
\* `Failed to <op> work order: <cause>`
StorageFailure(wrapped) == [kind |-> "error", type |-> "StorageFailure", wrapped |-> wrapped]
\* the call answered that it deleted the record
Removed(r) == r = BoolResult(TRUE)


(* ---------------- the service functions, up to their first await ------- *)
\* what a service function does before it first awaits the store: it throws,
\* or it calls the store function named by pc with the data arg
Throw(e) == [pc |-> "done", arg |-> EmptyObject, result |-> e]
Delegate(to, a) == [pc |-> to, arg |-> a, result |-> NoResult]

list_work_orders == Delegate("store_read", EmptyObject)

get_work_order(id) ==
    IF ~workOrderIdSchema(id) THEN Throw(InvalidId) ELSE Delegate("store_read", EmptyObject)

create_work_order(data) ==
    IF createWorkOrderSchemaIssues(data) # {}
    THEN Throw(ValidationFailed(createWorkOrderSchemaIssues(data)))
    ELSE Delegate("store_read", createWorkOrderSchema(data))

\* the existence check getById(id) comes first, then update(id, updateFields)
update_work_order(id, data) ==
    IF ~workOrderIdSchema(id) THEN Throw(InvalidId)
    ELSE IF updateWorkOrderSchemaIssues(data) # {}
    THEN Throw(ValidationFailed(updateWorkOrderSchemaIssues(data)))
    ELSE Delegate("check_read", Omit(updateWorkOrderSchema(data), "updatedAt"))

delete_work_order(id) ==
    IF ~workOrderIdSchema(id) THEN Throw(InvalidId) ELSE Delegate("check_read", EmptyObject)

getAllWorkOrders == Delegate("store_read", EmptyObject)

getWorkOrderById(id) ==
    IF ~SvcIdOk(id) THEN Throw(InvalidId) ELSE Delegate("store_read", EmptyObject)

createWorkOrder(data) ==
    IF createWorkOrderError(data) # {}
    THEN Throw(ValidationFailed(createWorkOrderError(data)))
    ELSE Delegate("store_read", data)

\* the fields are checked after the existence check (see AfterCheck)
updateWorkOrder(id, updates) ==
    IF ~SvcIdOk(id) THEN Throw(InvalidId) ELSE Delegate("check_read", updates)

deleteWorkOrder(id) ==
    IF ~SvcIdOk(id) THEN Throw(InvalidId) ELSE Delegate("check_read", EmptyObject)

(* ------------- the handlers of the two route.ts, likewise -------------- *)
\* NextResponse.json({ data } or { message },
\*                   { status, headers: { 'Cache-Control': 'no-store' } })
Success(status, body) ==
    [kind |-> "response", status |-> status, body |-> body, cacheControl |-> "no-store"]
Ok(body) == Success(200, body)
Created(body) == Success(201, body)
\* NextResponse.json({ error, message }, { status }): no headers are given
Fail(status, error) ==
    [kind |-> "response", status |-> status, error |-> error, cacheControl |-> "none"]

\* the answer to a body that the route's schema rejects: error.issues are sent
\* as details, here the message of each issue by the field of its path (the
\* issue of an unknown key has an empty path)
Invalid(body, issues) ==
    [kind |-> "response", status |-> 400, error |-> "Validation failed", cacheControl |-> "none",
     details |-> [f \in issues \cap InputFields |-> IssueMessage(f, Get(body, f))]]

\* what the handler of op answers when the service function it awaited ended
\* with r: the value it returned, or the error that its catch sorts by the
\* text of the message
Respond(op, r) ==
    IF r.kind = "error"
    THEN IF op \in {"update", "create"} /\ r.type = "ValidationFailed"
         THEN Fail(400, "Validation failed")
         ELSE IF op \in {"get", "update", "remove"} /\ r.type = "InvalidIdentifier"
         THEN Fail(400, "Invalid work order ID")
         ELSE CASE op = "list" -> Fail(500, "Failed to retrieve work orders")
                [] op = "create" -> Fail(500, "Failed to create work order")
                [] op = "get" -> Fail(500, "Failed to retrieve work order")
                [] op = "update" -> Fail(500, "Failed to update work order")
                [] op = "remove" -> Fail(500, "Failed to delete work order")
    ELSE IF r.kind = "null" \/ r = BoolResult(FALSE) THEN Fail(404, "Not found")
    ELSE IF op = "create" THEN Created(r)
    ELSE Ok(r)

\* await <service function>: an error it throws before its first await is
\* answered at once
Await(op, entered) ==
    IF entered.pc = "done" THEN Throw(Respond(op, entered.result)) ELSE entered

GET(id) ==
    IF ~routeWorkOrderIdSchema(id) THEN Throw(Fail(400, "Invalid work order ID"))
    ELSE Await("get", get_work_order(id))

PUT(id, body) ==
    IF ~routeWorkOrderIdSchema(id) THEN Throw(Fail(400, "Invalid work order ID"))
    ELSE IF body = Malformed THEN Throw(Fail(500, "Failed to update work order"))
    ELSE IF updateWorkOrderBodySchemaIssues(body) # {}
    THEN Throw(Invalid(body, updateWorkOrderBodySchemaIssues(body)))
    ELSE IF DOMAIN updateWorkOrderBodySchema(body) = {} THEN Throw(Fail(400, "Validation failed"))
    ELSE Await("update", update_work_order(id, updateWorkOrderBodySchema(body)))

DELETE(id) ==
    IF ~routeWorkOrderIdSchema(id) THEN Throw(Fail(400, "Invalid work order ID"))
    ELSE Await("remove", delete_work_order(id))

\* GET /api/work-orders
GET_list == Await("list", list_work_orders)

\* POST /api/work-orders
POST(body) ==
    IF body = Malformed THEN Throw(Fail(500, "Failed to create work order"))
    ELSE IF createWorkOrderBodySchemaIssues(body) # {}
    THEN Throw(Invalid(body, createWorkOrderBodySchemaIssues(body)))
    ELSE Await("create", create_work_order(createWorkOrderBodySchema(body)))

Enter(c) ==
    IF c.api = "rpc"
    THEN CASE c.op = "list" -> list_work_orders
           [] c.op = "get" -> get_work_order(c.id)
           [] c.op = "create" -> create_work_order(c.data)
           [] c.op = "update" -> update_work_order(c.id, c.data)
           [] c.op = "remove" -> delete_work_order(c.id)
    ELSE IF c.api = "svc"
    THEN CASE c.op = "list" -> getAllWorkOrders
           [] c.op = "get" -> getWorkOrderById(c.id)
           [] c.op = "create" -> createWorkOrder(c.data)
           [] c.op = "update" -> updateWorkOrder(c.id, c.data)
           [] c.op = "remove" -> deleteWorkOrder(c.id)
    ELSE CASE c.op = "list" -> GET_list
           [] c.op = "create" -> POST(c.data)
           [] c.op = "get" -> GET(c.id)
           [] c.op = "update" -> PUT(c.id, c.data)
           [] c.op = "remove" -> DELETE(c.id)

(* ------------------------------- actions ------------------------------- *)
InCheck(p) == pc[p] \in {"check_read", "check_heal_open", "check_heal_write"}

\* the service function ends with r; a handler that awaited it answers
Finish(p, r) ==
    /\ pc' = [pc EXCEPT ![p] = "done"]
    /\ result' = [result EXCEPT ![p] = IF call[p].api = "http" THEN Respond(call[p].op, r) ELSE r]

\* A request arrives and its handler runs up to its first await.  With
\* conc = FALSE a request arrives only when no other call is in flight, and
\* the file at its arrival is recorded in file0, and for a create the clock
\* in t0 (they are what "before the call" means when calls run one at a
\* time).  With
\* conc = TRUE, once MaxCalls calls were made and have all returned, one more
\* list or get may follow them.
Begin(p, c, conc) ==
    /\ pc[p] = "idle"
    /\ conc \/ \A q \in Procs : pc[q] = "idle"
    /\ \/ ncalls < MaxCalls
       \/ /\ conc
          /\ ncalls = MaxCalls
          /\ \A q \in Procs : pc[q] = "idle"
          /\ c.op \in {"list", "get"}
    /\ call' = [call EXCEPT ![p] = c]
    /\ pc' = [pc EXCEPT ![p] = Enter(c).pc]
    /\ arg' = [arg EXCEPT ![p] = Enter(c).arg]
    /\ result' = [result EXCEPT ![p] = Enter(c).result]
    /\ ncalls' = ncalls + 1
    /\ t0' = [t0 EXCEPT ![p] = IF conc \/ c.op # "create" THEN 0 ELSE now]
    /\ file0' = [file0 EXCEPT ![p] = IF conc THEN Missing ELSE file]
    /\ nreads' = [nreads EXCEPT ![p] = 0]
    /\ nwrites' = [nwrites EXCEPT ![p] = 0]
    /\ seen' = [seen EXCEPT ![p] = <<>>]
    /\ buf' = [buf EXCEPT ![p] = <<>>]
    /\ ret' = [ret EXCEPT ![p] = NoResult]
    /\ UNCHANGED <<file, now, used, removed, gone>>

\* a request of a client other than the form
Start(p, conc) ==
    /\ \E c \in IF conc THEN ConcCalls ELSE Calls : Begin(p, c, conc)
    /\ UNCHANGED form

\* The service's existence check getById(id) returned: update_work_order,
\* delete_work_order, updateWorkOrder, deleteWorkOrder after `await getById(id)`.
AfterCheck(p, orders) ==
    LET c == call[p]
        existingOrder == Find(orders, c.id)
    IN  /\ IF existingOrder = Null
           THEN Finish(p, IF c.op = "update" THEN NullResult ELSE BoolResult(FALSE))
           ELSE IF c.api = "svc" /\ c.op = "update" /\ updateWorkOrderError(c.data) # {}
           THEN Finish(p, ValidationFailed(updateWorkOrderError(c.data)))
           ELSE /\ pc' = [pc EXCEPT ![p] = "store_read"]
                /\ UNCHANGED result
        /\ UNCHANGED <<used, seen, buf, ret>>

\* The store function's readWorkOrders() returned orders: the rest of getAll,
\* getById, create, update or remove up to its writeWorkOrders call.
AfterLoad(p, orders) ==
    LET c == call[p]
        index == FindIndex(orders, c.id)
        filteredOrders == FilterOut(orders, c.id)
    IN  /\ seen' = [seen EXCEPT ![p] = orders]
        /\ \/ /\ c.op = "list"
              /\ Finish(p, ListResult(orders))
              /\ UNCHANGED <<used, buf, ret>>
           \/ /\ c.op = "get"
              /\ Finish(p, IF Find(orders, c.id) = Null THEN NullResult
                           ELSE OrderResult(Find(orders, c.id)))
              /\ UNCHANGED <<used, buf, ret>>
           \/ /\ c.op = "create"
              /\ \E id \in UuidV4(used) :
                    LET newOrder == NewOrder(arg[p], id, now)
                    IN  /\ buf' = [buf EXCEPT ![p] = Append(orders, newOrder)]
                        /\ ret' = [ret EXCEPT ![p] = OrderResult(newOrder)]
                        /\ used' = used \cup {id}
              /\ pc' = [pc EXCEPT ![p] = "store_open"]
              /\ UNCHANGED result
           \/ /\ c.op = "update"
              /\ IF index = 0
                 THEN /\ Finish(p, NullResult)
                      /\ UNCHANGED <<buf, ret>>
                 ELSE LET updatedOrder == UpdatedOrder(orders[index], arg[p], c.id, now)
                      IN  /\ buf' = [buf EXCEPT ![p] = ReplaceAt(orders, index, updatedOrder)]
                          /\ ret' = [ret EXCEPT ![p] = OrderResult(updatedOrder)]
                          /\ pc' = [pc EXCEPT ![p] = "store_open"]
                          /\ UNCHANGED result
              /\ UNCHANGED used
           \/ /\ c.op = "remove"
              /\ IF Len(filteredOrders) = Len(orders)
                 THEN /\ Finish(p, BoolResult(FALSE))
                      /\ UNCHANGED <<buf, ret>>
                 ELSE /\ buf' = [buf EXCEPT ![p] = filteredOrders]
                      /\ ret' = [ret EXCEPT ![p] = BoolResult(TRUE)]
                      /\ pc' = [pc EXCEPT ![p] = "store_open"]
                      /\ UNCHANGED result
              /\ UNCHANGED used

\* readWorkOrders() returned orders to whichever function awaited it
Resume(p, orders) == IF InCheck(p) THEN AfterCheck(p, orders) ELSE AfterLoad(p, orders)

\* readFile completes and readWorkOrders parses what it read.
ReadFile(p) ==
    /\ pc[p] \in {"check_read", "store_read"}
    /\ LET outcome == ReadOutcome(file)
       IN  IF outcome = "ok"
           THEN Resume(p, file.orders)
           ELSE IF Heals(outcome)
           THEN /\ pc' = [pc EXCEPT ![p] =
                        IF InCheck(p) THEN "check_heal_open" ELSE "store_heal_open"]
                /\ UNCHANGED <<used, seen, buf, ret, result>>
           ELSE \* rethrown: the existence check runs outside the service's try
                /\ Finish(p, StorageFailure(~InCheck(p)))
                /\ UNCHANGED <<used, seen, buf, ret>>
    /\ nreads' = [nreads EXCEPT ![p] = nreads[p] + 1]
    /\ UNCHANGED <<file, now, ncalls, call, arg, nwrites, t0, file0, removed, gone, form>>

\* What the file holds once a writeFile that opened it earlier writes text:
\* the text alone when nothing was written since the open, otherwise the
\* text laid over what is there, which is the text when that is not longer
\* and no JSON when it is.
Landed(f, orders) ==
    IF f.kind = "blank" \/ (f.kind = "array" /\ f.orders = <<>>) THEN {ArrayFile(orders)}
    ELSE IF f.kind = "array" /\ orders = <<>> THEN {Garbage}
    ELSE {ArrayFile(orders), Garbage}

\* writeFile of writeWorkOrders opens the file with flag 'w': it is truncated,
\* or the open fails and the error leaves the store function; the existence
\* check runs outside the service's try
OpenFile(p) ==
    /\ pc[p] \in {"check_heal_open", "store_heal_open", "store_open"}
    /\ nwrites' = [nwrites EXCEPT ![p] = nwrites[p] + 1]
    /\ IF WriteFails(file)
       THEN /\ file' = file
            /\ Finish(p, StorageFailure(~InCheck(p)))
       ELSE /\ file' = Blank
            /\ pc' = [pc EXCEPT ![p] =
                    CASE pc[p] = "check_heal_open" -> "check_heal_write"
                      [] pc[p] = "store_heal_open" -> "store_heal_write"
                      [] pc[p] = "store_open" -> "store_write"]
            /\ UNCHANGED result
    /\ UNCHANGED <<now, used, ncalls, call, arg, seen, buf, ret, nreads, t0, file0, removed, gone, form>>

\* the catch of readWorkOrders: writeWorkOrders([]) completes, return []
HealWrite(p) ==
    /\ pc[p] \in {"check_heal_write", "store_heal_write"}
    /\ file' \in Landed(file, <<>>)
    /\ Resume(p, <<>>)
    /\ UNCHANGED <<now, ncalls, call, arg, nreads, nwrites, t0, file0, removed, gone, form>>

\* writeWorkOrders(orders) of create, update or remove completes and the
\* store function returns
WriteData(p) ==
    /\ pc[p] = "store_write"
    /\ file' \in Landed(file, buf[p])
    /\ Finish(p, ret[p])
    /\ UNCHANGED <<now, used, ncalls, call, arg, seen, buf, ret, nreads, nwrites, t0, file0, removed, gone, form>>

\* the caller has its answer; the call's frame is gone.  With conc = FALSE
\* the id is recorded that the call removed (NotUuid when it removed none).
Leave(p, conc) ==
    /\ pc[p] = "done"
    /\ pc' = [pc EXCEPT ![p] = "idle"]
    /\ call' = [call EXCEPT ![p] = NoCall]
    /\ arg' = [arg EXCEPT ![p] = EmptyObject]
    /\ seen' = [seen EXCEPT ![p] = <<>>]
    /\ buf' = [buf EXCEPT ![p] = <<>>]
    /\ ret' = [ret EXCEPT ![p] = NoResult]
    /\ result' = [result EXCEPT ![p] = NoResult]
    /\ nreads' = [nreads EXCEPT ![p] = 0]
    /\ nwrites' = [nwrites EXCEPT ![p] = 0]
    /\ t0' = [t0 EXCEPT ![p] = 0]
    /\ file0' = [file0 EXCEPT ![p] = Missing]
    /\ removed' = IF ~conc /\ call[p].op = "remove" /\ Removed(result[p])
                  THEN call[p].id ELSE NotUuid
    /\ gone' = IF conc /\ call[p].op = "remove" /\ Removed(result[p])
               THEN gone \cup {call[p].id} ELSE gone
    /\ UNCHANGED <<file, now, used, ncalls>>

\* the answer reaches a client other than the form
Return(p, conc) == Leave(p, conc) /\ UNCHANGED form

\* the wall clock advances by a millisecond
Tick ==
    /\ now < MaxClock
    /\ now' = now + 1
    /\ UNCHANGED <<file, used, ncalls, pc, call, arg, seen, buf, ret, result, nreads, nwrites, t0,
                   file0, removed, gone, form>>

Step(p) == ReadFile(p) \/ OpenFile(p) \/ HealWrite(p) \/ WriteData(p)

Next == Tick \/ \E p \in Procs : Start(p, FALSE) \/ Step(p) \/ Return(p, FALSE)
NextConc == Tick \/ \E p \in Procs : Start(p, TRUE) \/ Step(p) \/ Return(p, TRUE)

Spec == Init /\ [][Next]_vars
SpecConc == Init /\ [][NextConc]_vars

(* ------------- components/work-orders/WorkOrderForm.tsx ---------------- *)
Medium == Txt("Medium")
\* ''
Empty == Str(0, 0, 0)
\* a text or an option that JavaScript takes for true: every one but ''
Truthy(v) == ~IsUndefined(v) /\ ("txt" \in DOMAIN v \/ StrLen(v) > 0)

\* the call of the model that carries the form's fetch
Browser == 1

ErrorKeys == InputFields \cup {"general"}
\* errors[k] is rendered when it is neither missing nor undefined (no message
\* is the empty text)
Shown(errors, k) == k \in DOMAIN errors /\ ~IsUndefined(errors[k])

\* useState({ title: initialData?.title || '', ... })
InitialFormData(initialData) ==
    [title |-> IF Truthy(Get(initialData, "title")) THEN initialData.title ELSE Empty,
     description |->
        IF Truthy(Get(initialData, "description")) THEN initialData.description ELSE Empty,
     priority |-> IF Truthy(Get(initialData, "priority")) THEN initialData.priority ELSE Medium,
     status |-> IF Truthy(Get(initialData, "status")) THEN initialData.status ELSE Open]

\* the last event was neither a change nor a blur
NoEvent == [type |-> "other", field |-> "none", had |-> FALSE]
\* the component after its first render
Mount(mode, workOrderId, initialData) ==
    [mode |-> mode, workOrderId |-> workOrderId, formData |-> InitialFormData(initialData),
     errors |-> EmptyObject, isSubmitting |-> FALSE, isSuccess |-> FALSE, event |-> NoEvent]

\* validateForm, edit mode: the object handed to editFormSchema
EditData(formData) ==
    LET keys == {f \in InputFields :
                    IF f \in {"title", "description"} THEN Truthy(Trim(formData[f]))
                    ELSE Truthy(formData[f])}
    IN  [f \in keys |-> FieldOut(f, formData[f])]

\* validateForm: the fields named by the issues of createFormSchema.parse(formData),
\* or of editFormSchema.parse(editData)
validateFormIssues(mode, formData) ==
    IF mode = "create" THEN {f \in InputFields : ~FieldOk(f, formData[f])}
    ELSE {f \in DOMAIN EditData(formData) : ~FieldOk(f, EditData(formData)[f])}
\* the refine of editFormSchema; its issue has an empty path and sets no field error
EditRefineOk(mode, formData) == mode = "create" \/ DOMAIN EditData(formData) # {}
\* validateForm(): its return value, and the errors it sets
validateForm(mode, formData) ==
    validateFormIssues(mode, formData) = {} /\ EditRefineOk(mode, formData)
validateFormErrors(mode, formData) ==
    LET data == IF mode = "create" THEN formData ELSE EditData(formData)
    IN  [f \in validateFormIssues(mode, formData) |-> IssueMessage(f, data[f])]

\* handleSubmit: the body of the request, the same object in both modes
RequestBody(formData) ==
    [title |-> Trim(formData.title), description |-> Trim(formData.description),
     priority |-> formData.priority, status |-> formData.status]
\* fetch(url, { method, body }): POST /api/work-orders or PUT /api/work-orders/<workOrderId>
Fetch(fm) ==
    [op |-> IF fm.mode = "create" THEN "create" ELSE "update", api |-> "http",
     id |-> fm.workOrderId, data |-> RequestBody(fm.formData)]

\* faulty variant of ClearError: the errors are left as they are
ClearErrorKeeps(errors, name) == errors

\* handleChange: setErrors((prev) => ({ ...prev, [name]: undefined })) when
\* an error of the field is set
ClearError(errors, name) ==
    IF Shown(errors, name) THEN Spread(errors, [k \in {name} |-> Undefined]) ELSE errors

\* handleBlur: the errors after it
BlurErrors(mode, formData, errors, fieldName) ==
    IF mode = "create" /\ Truthy(formData[fieldName])
    THEN Spread(errors, [k \in {fieldName} |->
            IF FieldOk(fieldName, formData[fieldName]) THEN Undefined
            ELSE IssueMessage(fieldName, formData[fieldName])])
    ELSE errors

\* what the user can type or select
TitleTyped == {Str(0, 1, 0), Str(0, 1, 1), Str(0, 2, 0), Str(0, 0, 2)}
DescriptionTyped == {Str(0, 1, 0), Str(0, 10, 0)}
Typed(f) ==
    CASE f = "title" -> TitleTyped
      [] f = "description" -> DescriptionTyped
      [] f = "priority" -> {High}
      [] f = "status" -> {Done}
\* the status select is rendered in edit mode only
Rendered(mode) == IF mode = "edit" THEN InputFields ELSE InputFields \ {"status"}

Happened(type, field, had) == [type |-> type, field |-> field, had |-> had]

\* onChange of an input, a textarea or a select
handleChange(name, value) ==
    /\ name \in Rendered(form.mode)
    /\ value # form.formData[name]
    /\ form' = [form EXCEPT !.formData = [@ EXCEPT ![name] = value],
                            !.errors = ClearError(@, name),
                            !.event = Happened("change", name, Shown(form.errors, name))]
    /\ UNCHANGED <<file, now, used, ncalls, pc, call, arg, seen, buf, ret, result, nreads, nwrites,
                   t0, file0, removed, gone>>

\* onBlur of an input, a textarea or a select
handleBlur(fieldName) ==
    /\ fieldName \in Rendered(form.mode)
    /\ form' = [form EXCEPT
                    !.errors = BlurErrors(form.mode, form.formData, @, fieldName),
                    !.event = Happened("blur", fieldName, FALSE)]
    /\ UNCHANGED <<file, now, used, ncalls, pc, call, arg, seen, buf, ret, result, nreads, nwrites,
                   t0, file0, removed, gone>>

\* onSubmit, up to `await fetch(...)`; the submit button is disabled while
\* isSubmitting or isSuccess
handleSubmit ==
    /\ form.mode # "none"
    /\ ~form.isSubmitting /\ ~form.isSuccess
    /\ IF validateForm(form.mode, form.formData)
       THEN /\ Begin(Browser, Fetch(form), FALSE)
            /\ form' = [form EXCEPT !.errors = EmptyObject, !.isSubmitting = TRUE,
                                    !.event = NoEvent]
       ELSE /\ form' = [form EXCEPT
                            !.errors = validateFormErrors(form.mode, form.formData),
                            !.event = NoEvent]
            /\ UNCHANGED <<file, now, used, ncalls, pc, call, arg, seen, buf, ret, result, nreads,
                           nwrites, t0, file0, removed, gone>>

\* data.message of an answer that is not ok, named by the answer's error
ServerMessage(response) == Txt(response.error)

\* handleSubmit after `await fetch(...)`: the answer arrived, or the fetch
\* was rejected and the catch runs
Received(lost) ==
    /\ form.mode # "none"
    /\ form.isSubmitting
    /\ Leave(Browser, FALSE)
    /\ LET response == result[Browser]
       IN  form' = [form EXCEPT
                !.isSubmitting = FALSE,
                !.isSuccess = ~lost /\ response.status \in {200, 201},
                !.errors =
                    IF lost THEN [k \in {"general"} |-> Txt("An unexpected error occurred")]
                    ELSE IF response.status \in {200, 201} THEN @
                    ELSE IF response.status = 400 /\ "details" \in DOMAIN response
                    THEN response.details
                    ELSE [k \in {"general"} |-> ServerMessage(response)],
                !.event = NoEvent]

\* the pages that render the form: the create page, and an edit page of a
\* record with or without its data
Mounts ==
    {Mount("create", NotUuid, EmptyObject), Mount("edit", 1, Sample1),
     Mount("edit", 1, EmptyObject)}
FormFiles == {Missing, ArrayFile(<<Sample1>>)}

InitForm ==
    /\ file \in FormFiles
    /\ used = Ids(FileOrders(file))
    /\ InitCalls
    /\ form \in Mounts

\* The form reads no timestamp, so the clock is left standing while it is open.
NextForm ==
    \/ \E name \in InputFields : \E value \in Typed(name) : handleChange(name, value)
    \/ \E fieldName \in InputFields : handleBlur(fieldName)
    \/ handleSubmit
    \/ Step(Browser)
    \/ \E lost \in BOOLEAN : Received(lost)

SpecForm == InitForm /\ [][NextForm]_vars



(* ------------------------------- claims -------------------------------- *)
SixFields == {"id", "title", "description", "priority", "status", "updatedAt"}

\* the call p has ended and was a call of op to a service function
Ended(p, op) == pc[p] = "done" /\ call[p].op = op /\ call[p].api \in Apis
\* the call passed the checks of its id and of its fields
PassedValidation(p) ==
    ~(result[p].kind = "error" /\ result[p].type \in {"InvalidIdentifier", "ValidationFailed"})
\* the collection in the file when the call started; a missing or unparseable
\* file counts as the empty collection
Prev(p) == FileOrders(file0[p])
\* the file held a collection, or what the store takes for the empty one
HeldCollection(p) == file0[p].kind \in {"array", "missing", "blank", "garbage"}

\* C1: a create that passed validation returns a record whose id is not in
\* the collection before the call, whose updatedAt is not before the clock at
\* the start of the call and whose four input fields equal the validated
\* input; the file then holds the previous collection plus that record, last.
C1_CreateReturnsFreshRecord ==
    \A p \in Procs :
        Ended(p, "create") /\ PassedValidation(p) /\ HeldCollection(p) =>
            /\ result[p].kind = "order"
            /\ LET o == result[p].order
               IN  /\ o.id \notin Ids(Prev(p))
                   /\ o.updatedAt >= Timestamp(t0[p])
                   /\ \A f \in InputFields : o[f] = arg[p][f]
                   /\ file = ArrayFile(Append(Prev(p), o))

C1_Witness ==
    \E p \in Procs :
        /\ Ended(p, "create")
        /\ result[p].kind = "order"
        /\ Len(Prev(p)) >= 1
        /\ "id" \in DOMAIN call[p].data

\* C2: an update of an existing id with a valid patch over a non-empty set F
\* of input fields returns and persists a record that differs from the one
\* before the call at most in F and updatedAt; its id is the one it had,
\* whatever the patch holds.
C2_UpdateChangesOnlyPatched ==
    \A p \in Procs :
        LET F == DOMAIN call[p].data \cap InputFields
            i == FindIndex(Prev(p), call[p].id)
        IN  Ended(p, "update") /\ PassedValidation(p) /\ file0[p].kind = "array"
                /\ F # {} /\ call[p].id \in Ids(Prev(p)) =>
                /\ result[p].kind = "order"
                /\ LET old == Prev(p)[i]
                       new == result[p].order
                   IN  /\ new.id = old.id
                       /\ DOMAIN new \ F = DOMAIN old \ F
                       /\ \A k \in DOMAIN old \ (F \cup {"updatedAt"}) : new[k] = old[k]
                       /\ file = ArrayFile(ReplaceAt(Prev(p), i, new))

C2_Witness ==
    \E p \in Procs :
        /\ Ended(p, "update")
        /\ result[p].kind = "order"
        /\ "id" \in DOMAIN call[p].data
        /\ call[p].data.id # call[p].id

C4_GetAfterCreate ==
    \A p \in Procs :
        Ended(p, "create") /\ result[p].kind = "order" =>
            /\ file.kind = "array"
            /\ LET o == result[p].order
                   got == Find(file.orders, o.id)
               IN  /\ got # Null
                   /\ SixFields \subseteq DOMAIN got
                   /\ \A f \in SixFields : got[f] = o[f]

C4_Witness ==
    \E p \in Procs :
        /\ Ended(p, "create")
        /\ result[p].kind = "order"
        /\ Len(Prev(p)) >= 1
        /\ call[p].api = "rpc"

\* C5 as stated, for update_work_order: for an id that is not in the
\* collection, whatever the file holds, update returns absent, writes nothing
\* and leaves the file as it was.
C5_Original ==
    \A p \in Procs :
        Ended(p, "update") /\ PassedValidation(p) /\ HeldCollection(p)
            /\ call[p].api = "rpc" /\ call[p].id \notin Ids(Prev(p)) =>
            /\ result[p] = NullResult
            /\ nwrites[p] = 0
            /\ file = file0[p]

\* C5 amended: for an id that is not in the collection, update returns
\* absent; it writes nothing when the file holds a JSON array, and when the
\* file is missing or holds no JSON the load rewrites it once, to [].
C5_UpdateAbsentNoWrite ==
    \A p \in Procs :
        Ended(p, "update") /\ PassedValidation(p) /\ HeldCollection(p)
            /\ call[p].id \notin Ids(Prev(p)) =>
            /\ result[p] = NullResult
            /\ file0[p].kind = "array" => nwrites[p] = 0 /\ file = file0[p]
            /\ file0[p].kind # "array" => nwrites[p] = 1 /\ file = ArrayFile(<<>>)

C5_Witness ==
    \E p \in Procs :
        /\ Ended(p, "update")
        /\ result[p] = NullResult
        /\ file0[p].kind = "array"
        /\ Len(Prev(p)) >= 1

\* C6: list on a missing or empty file returns the empty sequence and leaves
\* the file holding the empty JSON array.
C6_ListHealsEmpty ==
    \A p \in Procs :
        Ended(p, "list") /\ (file0[p] \in {Missing, Blank} \/ file0[p] = ArrayFile(<<>>)) =>
            /\ result[p] = ListResult(<<>>)
            /\ file = ArrayFile(<<>>)

C6_Witness ==
    \E p \in Procs :
        /\ Ended(p, "list")
        /\ file0[p] = Blank
        /\ nwrites[p] = 1

\* C7: when the file holds JSON that is not an array, a call that loads the
\* collection raises no error and leaves the file holding the empty array.
C7_NonArrayTreatedAsEmpty ==
    \A p \in Procs :
        pc[p] = "done" /\ PassedValidation(p) /\ file0[p] = NonArray =>
            /\ result[p].kind # "error"
            /\ file = ArrayFile(<<>>)

NoDupIds(orders) ==
    \A i, j \in 1..Len(orders) : orders[i].id = orders[j].id => i = j

\* the step in which the create of call p draws its id
DrawsId(p) ==
    /\ call[p].op = "create"
    /\ pc[p] \in {"store_read", "store_heal_write"}
    /\ pc'[p] = "store_open"

\* C8: in every interleaving no two records of the file share an id, and the
\* id a create draws was never the id of a record before, deleted or not.
C8_IdsUniqueNeverReused ==
    [][/\ NoDupIds(FileOrders(file'))
       /\ Ids(FileOrders(file')) \subseteq used'
       /\ \A p \in Procs :
            DrawsId(p) => ret'[p].order.id \notin used \cup Ids(FileOrders(file))]_vars

C8_Witness ==
    \E p \in Procs :
        /\ Ended(p, "create")
        /\ result[p].kind = "order"
        /\ \E id \in used : id # result[p].order.id /\ id \notin Ids(FileOrders(file))

\* C9: every record in the file has exactly the six fields, a trimmed title
\* of 2 to 80 characters, a trimmed description of 10 to 500 characters, a
\* priority and a status of the enumerations.
C9_PersistedRecordsValid ==
    \A i \in 1..Len(FileOrders(file)) :
        LET o == file.orders[i]
        IN  /\ DOMAIN o = SixFields
            /\ IsTrimmed(o.title)
            /\ StrLen(o.title) >= TitleMin /\ StrLen(o.title) <= TitleMax
            /\ IsTrimmed(o.description)
            /\ StrLen(o.description) >= DescMin /\ StrLen(o.description) <= DescMax
            /\ o.priority \in Priorities
            /\ o.status \in Statuses

\* the record the update of call p loaded
LoadedOrder(p) == seen[p][FindIndex(seen[p], call[p].id)]

BothSucceeded(p, q) ==
    /\ Ended(p, "create") /\ result[p].kind = "order"
    /\ Ended(q, "update") /\ result[q].kind = "order"
    /\ call[q].id # result[p].order.id

\* C11: when a create and an update of another record have both ended with
\* success, the collection in the file is the one a single writer handed to
\* its full-collection write: what the create loaded plus the created record,
\* or what the update loaded with the updated record in place.  Nothing of
\* the other call is merged in, so its change is lost when it was not yet in
\* the file at the time the last writer loaded.
C11_LaterWriteReplacesEarlier ==
    \A p, q \in Procs :
        BothSucceeded(p, q) /\ file.kind = "array" =>
            LET created == result[p].order
                updated == result[q].order
                i == FindIndex(seen[q], call[q].id)
            IN  \/ file = ArrayFile(Append(seen[p], created))
                \/ /\ Len(file.orders) = Len(seen[q])
                   /\ \A k \in 1..Len(seen[q]) :
                        file.orders[k] = IF k = i THEN updated ELSE seen[q][k]

\* both calls returned success and the created record is not in the file
C11_Witness ==
    \E p, q \in Procs :
        /\ BothSucceeded(p, q)
        /\ file.kind = "array"
        /\ result[p].order.id \notin Ids(file.orders)
        /\ Find(file.orders, call[q].id) = result[q].order


\* the call ended with an invalid-identifier or a validation error
FailedValidation(p) == pc[p] = "done" /\ ~PassedValidation(p)

\* C12: a get, create, update or remove that fails with an invalid-identifier
\* or a validation error has issued no readFile and no writeFile.
C12_NoStoreAccessBeforeValidationError ==
    \A p \in Procs :
        FailedValidation(p) /\ call[p].op \in {"get", "create", "update", "remove"} =>
            nreads[p] = 0 /\ nwrites[p] = 0


\* C13: a call that fails because a read or a write of the file failed ends
\* with the error `Failed to <operation> work order: <cause>`, also when the
\* failure happens in the existence check of update and remove.
C13_StorageErrorsNameOperation ==
    \A p \in Procs :
        pc[p] = "done" /\ result[p].kind = "error" /\ result[p].type = "StorageFailure" =>
            result[p].wrapped


\* C14: an update of a record of the file with a patch without any field
\* fails with a validation error and leaves the file, and so the record and
\* its updatedAt, as it was.
C14_EmptyPatchRejected ==
    \A p \in Procs :
        Ended(p, "update") /\ file0[p].kind = "array" /\ call[p].id \in Ids(Prev(p))
            /\ call[p].data = EmptyObject =>
            /\ result[p].kind = "error"
            /\ result[p].type = "ValidationFailed"
            /\ file = file0[p]


\* the rule of a field: a title of 2 to 80 characters and a description of
\* 10 to 500 characters, both counted as the text is kept (trimmed), a
\* priority and a status of the enumerations
RuleOk(f, v) ==
    CASE f = "title" ->
            ~IsUndefined(v) /\ StrLen(Trim(v)) >= TitleMin /\ StrLen(Trim(v)) <= TitleMax
      [] f = "description" ->
            ~IsUndefined(v) /\ StrLen(Trim(v)) >= DescMin /\ StrLen(Trim(v)) <= DescMax
      [] f = "priority" -> v \in Priorities
      [] f = "status" -> v \in Statuses
\* the fields of a create input that break their rule
Violated(data) == {f \in InputFields : ~RuleOk(f, Get(data, f))}

C16_ErrorNamesEveryField ==
    \A p \in Procs :
        Ended(p, "create") /\ result[p].kind = "error" /\ result[p].type = "ValidationFailed" =>
            result[p].fields = Violated(call[p].data)


\* C17: after a successful update of a record of the file, every field whose
\* key is in the patch with the value undefined has in the file the value it
\* had before, and the record in the file still has its six fields.
C17_UndefinedKeysNotMerged ==
    \A p \in Procs :
        Ended(p, "update") /\ result[p].kind = "order" /\ file0[p].kind = "array" =>
            LET old == Find(Prev(p), call[p].id)
                persisted == Find(FileOrders(file), call[p].id)
            IN  /\ persisted # Null
                /\ DOMAIN old = SixFields => DOMAIN persisted = SixFields
                /\ \A k \in DOMAIN call[p].data \cap InputFields :
                        IsUndefined(call[p].data[k]) =>
                            k \in DOMAIN persisted /\ persisted[k] = old[k]


\* the call p is a remove of the id that the call before it removed
SecondRemove(p) == Ended(p, "remove") /\ removed # NotUuid /\ call[p].id = removed

\* C18: a remove(id) that follows a remove(id) which returned true returns
\* false, raises no error, writes nothing and leaves the file as it was.
C18_RemoveIdempotent ==
    \A p \in Procs :
        SecondRemove(p) =>
            /\ result[p] = BoolResult(FALSE)
            /\ nwrites[p] = 0
            /\ file = file0[p]

C18_Witness ==
    \E p \in Procs :
        /\ SecondRemove(p)
        /\ result[p] = BoolResult(FALSE)
        /\ Len(FileOrders(file)) >= 1


\* the ids of a collection, in its order
IdSeq(orders) == [i \in 1..Len(orders) |-> orders[i].id]
\* uuidv4 is modelled as issuing ids in increasing order, so the records are
\* in the order of their creation when their ids increase
InCreationOrder(orders) ==
    \A i, j \in 1..Len(orders) : i < j => orders[i].id < orders[j].id

\* C19: the file holds the records in the order of their creation, and list
\* returns them in the order of the file; a create puts its record last, an
\* update leaves every record at its position and a remove takes its record
\* out and leaves the others in their order.
C19_ListInCreationOrder ==
    /\ InCreationOrder(FileOrders(file))
    /\ \A p \in Procs :
        LET before == IdSeq(Prev(p))
            after == IdSeq(FileOrders(file))
        IN  /\ Ended(p, "list") /\ result[p].kind = "list" =>
                result[p].orders = FileOrders(file) /\ InCreationOrder(result[p].orders)
            /\ Ended(p, "create") /\ result[p].kind = "order" =>
                after = Append(before, result[p].order.id)
            /\ Ended(p, "update") /\ result[p].kind = "order" => after = before
            /\ Ended(p, "remove") /\ Removed(result[p]) =>
                after = SelectSeq(before, LAMBDA id : id # call[p].id)

\* a list that returns more records than the file held at the start of the
\* run: a create came before it
C19_Witness ==
    \E p \in Procs :
        /\ Ended(p, "list")
        /\ result[p].kind = "list"
        /\ \A f \in InitFiles : Len(result[p].orders) > Len(FileOrders(f))


\* the request p has been answered
Answered(p) == pc[p] = "done" /\ call[p].api = "http"
\* the request p is one to /api/work-orders/[id]
ById(p) == call[p].op \in {"get", "update", "remove"}

\* C20: GET, PUT and DELETE with an id that is no UUID are answered with
\* status 400 and error 'Invalid work order ID', whatever the body is, and
\* without a read or a write of the file.
C20_BadIdAnswered400 ==
    \A p \in Procs :
        Answered(p) /\ ById(p) /\ call[p].id = NotUuid =>
            /\ result[p] = Fail(400, "Invalid work order ID")
            /\ nreads[p] = 0
            /\ nwrites[p] = 0
            /\ file = file0[p]

C20_Witness ==
    \E p \in Procs :
        /\ Answered(p)
        /\ call[p].op = "update"
        /\ call[p].id = NotUuid
        /\ call[p].data = Malformed
        /\ result[p].status = 400


\* the request p has a valid UUID in its path and, when it is a PUT, a body
\* of at least one field in which every field meets its rule, as sent and
\* trimmed
WellFormed(p) ==
    /\ Answered(p)
    /\ ById(p)
    /\ call[p].id # NotUuid
    /\ call[p].op = "update" =>
        /\ call[p].data # Malformed
        /\ call[p].data # EmptyObject
        /\ DOMAIN call[p].data \subseteq InputFields
        /\ \A f \in DOMAIN call[p].data :
                FieldOk(f, call[p].data[f]) /\ RuleOk(f, call[p].data[f])

\* C21: with a file that holds a collection, a well-formed GET, PUT or DELETE
\* is answered 404 exactly when the collection holds no record with the id,
\* and then the collection is as it was; with the record in the collection
\* the answer is 200.
C21_NotFoundIffAbsent ==
    \A p \in Procs :
        WellFormed(p) /\ HeldCollection(p) =>
            LET present == call[p].id \in Ids(Prev(p))
            IN  /\ result[p].status = 404 <=> ~present
                /\ present => result[p].status = 200
                /\ ~present => FileOrders(file) = Prev(p)

C21_Witness ==
    \E p \in Procs :
        /\ WellFormed(p)
        /\ call[p].op = "update"
        /\ result[p].status = 404
        /\ Len(Prev(p)) >= 1


\* C22: every response of the five endpoints carries the header
\* Cache-Control: no-store.
C22_EveryResponseNoStore ==
    \A p \in Procs : Answered(p) => result[p].cacheControl = "no-store"

\* the request p has no defect of its own: a body that is JSON, only known
\* fields, every field within its rule, a PUT body that is not empty, an id
\* that is a UUID
SoundRequest(p) ==
    /\ ById(p) => call[p].id # NotUuid
    /\ call[p].op \in {"create", "update"} =>
        /\ call[p].data # Malformed
        /\ DOMAIN call[p].data \subseteq InputFields
        /\ \A f \in DOMAIN call[p].data : RuleOk(f, call[p].data[f])
    /\ call[p].op = "create" => DOMAIN call[p].data = InputFields
    /\ call[p].op = "update" => call[p].data # EmptyObject

\* C27: a request is answered 500 only when the store failed, and a request
\* with a defect of its own is answered 400.
C27_ServerErrorOnlyOnStoreFailure ==
    \A p \in Procs :
        Answered(p) =>
            /\ result[p].status = 500 => ~HeldCollection(p)
            /\ ~SoundRequest(p) => result[p].status = 400


\* the call p started after every other call had returned, and has ended
Last(p) == pc[p] = "done" /\ ncalls > MaxCalls

\* C23: in every interleaving, a list or get that follows a remove(id) which
\* returned true returns no record with that id.
C23_RemovedStaysGone ==
    \A p \in Procs :
        Last(p) =>
            /\ result[p].kind = "list" => Ids(result[p].orders) \cap gone = {}
            /\ result[p].kind = "order" => result[p].order.id \notin gone

\* the calls p and q are the only calls made and both have ended
OnlyTwo(p, q) == p # q /\ ncalls = 2 /\ pc[p] = "done" /\ pc[q] = "done"

\* C24: when a list or get and a create, update or remove that succeeded are
\* the only calls, then in every interleaving the file holds, after both,
\* the collection that the mutation handed to its write.
C24_ReadersRemoveNothing ==
    \A p, q \in Procs :
        OnlyTwo(p, q) /\ call[p].op \in {"list", "get"}
            /\ call[q].op \in {"create", "update", "remove"}
            /\ (result[q].kind = "order" \/ Removed(result[q])) =>
            file = ArrayFile(buf[q])

\* C25: when two remove(id) for the same id, which is in the collection, are
\* the only calls and neither fails, then in every interleaving one returns
\* true and the other false.
C25_OneRemoveWins ==
    \A p, q \in Procs :
        OnlyTwo(p, q) /\ call[p].op = "remove" /\ call[q].op = "remove"
            /\ call[p].id = call[q].id /\ call[p].id \in used
            /\ result[p].kind = "bool" /\ result[q].kind = "bool" =>
            result[p].bool # result[q].bool


\* the records of a collection other than the one with id x, in their order
Others(orders, x) == SelectSeq(orders, LAMBDA o : o.id # x)
\* the call p was a create, update or remove that succeeded
Mutated(p) ==
    /\ \E op \in {"create", "update", "remove"} : Ended(p, op)
    /\ result[p].kind = "order" \/ Removed(result[p])
\* the id of the record the mutation p is about
Target(p) == IF call[p].op = "create" THEN result[p].order.id ELSE call[p].id

\* C26: with calls one at a time, after a successful create, update or
\* remove about record X the file holds, apart from X, exactly the records it
\* held before the call, each equal in every field and in the same order.
C26_OtherRecordsUntouched ==
    \A p \in Procs :
        Mutated(p) =>
            /\ file.kind = "array"
            /\ Others(file.orders, Target(p)) = Others(Prev(p), Target(p))

C26_Witness ==
    \E p \in Procs :
        /\ Mutated(p)
        /\ call[p].op = "update"
        /\ Len(Prev(p)) = 2
        /\ call[p].id = Prev(p)[2].id
        /\ file.orders[2] # Prev(p)[2]


\* the form's validation passed, the request was sent and its answer is ready
Submitted == form.mode # "none" /\ form.isSubmitting /\ pc[Browser] = "done"

\* C28: when validateForm returned true, in create or in edit mode, the
\* server does not answer the request that handleSubmit then sends with 400.
C28_ValidatedBodyAccepted == Submitted => result[Browser].status # 400

\* C29: after a blur of a field, in create or in edit mode, an error is shown
\* for the field exactly when its current value breaks the field's schema.
C29_BlurRevalidates ==
    form.mode # "none" /\ form.event.type = "blur" =>
        LET f == form.event.field
        IN  Shown(form.errors, f) <=> ~FieldOk(f, form.formData[f])

\* C30: a change of field name leaves no error shown for name and leaves the
\* error of every other field and the general error as they were.
C30_ChangeClearsOwnError ==
    [][\A name \in InputFields : \A value \in Typed(name) :
            handleChange(name, value) =>
                /\ ~Shown(form'.errors, name)
                /\ \A k \in ErrorKeys \ {name} : Get(form'.errors, k) = Get(form.errors, k)]_vars

C30_Witness ==
    /\ form.mode # "none"
    /\ form.event.type = "change"
    /\ form.event.had
    /\ Shown(form.errors, "general")
    /\ \E k \in InputFields \ {form.event.field} : Shown(form.errors, k)


====
